---- MODULE Spec2Model ----
(***************************************************************************)
(* ReactNavigationV5Instrumentation (src/js/tracing/reactnavigationv5.ts): *)
(* the controller that turns "dispatch" and "state" events of a navigation *)
(* container into route transactions, with a discard timer per dispatch    *)
(* and a bounded ledger of recently seen route keys.                       *)
(*                                                                         *)
(* Handlers are operators from a controller state (a record of the         *)
(* instance fields, the host's timers and the transactions handed out) to  *)
(* the state after the handler; every action applies one handler whole.    *)
(***************************************************************************)
EXTENDS Integers, Sequences, FiniteSets, TLC

VARIABLES
    _navigationContainer,   \* TRUE: a container is held; FALSE: null
    _latestRoute,           \* a route, NoRoute when undefined
    _latestTransaction,     \* id of the pending transaction, 0 when undefined
    _initialStateHandled,
    _stateChangeTimeout,    \* timer handle, 0 when undefined
    _recentRouteKeys,       \* the ledger
    _beforeNavigate,        \* TRUE once registerRoutingInstrumentation stored the hook
    registered,             \* global __sentry_rn_v5_registered
    listeners,              \* listeners attached to the container, per event type
    timers,                 \* host timers, indexed by handle
    transactions,           \* every transaction handed out, indexed by id
    hookCalls,              \* number of invocations of the decoration hook
    recorded,               \* history: every key _pushRecentRouteKey was given
    dispatchRun,            \* history: transactions created since the last _onStateChange
    firedInRun,             \* history: a timer fired since dispatchRun began
    bootCalls,              \* history: handler calls made by the register methods
    last                    \* history: the last operation and its _onStateChange call

vars == << _navigationContainer, _latestRoute, _latestTransaction,
           _initialStateHandled, _stateChangeTimeout, _recentRouteKeys,
           _beforeNavigate, registered, listeners, timers, transactions,
           hookCalls, recorded, dispatchRun, firedInRun, bootCalls, last >>

---------------------------------------------------------------------------
\* Bounds of the model.

\* transactions (dispatches) created in a behaviour of Spec
MaxTx == 2
\* route keys recorded into the ledger in a behaviour of Spec
MaxRecorded == 2
\* distinct route keys the container reports in Spec
MaxKey == 2
\* keys recorded in a behaviour of SpecLedger (more than the capacity)
MaxLedgerKeys == 204
\* time advanced by one Tick, in ms
TickMs == 1000
\* transactions created in a behaviour of SpecSeen
MaxSeenTx == 1
\* route keys recorded into the ledger in a behaviour of SpecSeen
MaxSeenRecorded == 3

\* Program constants.
routeChangeTimeoutMs == 1000
_maxRecentRouteLen == 200

---------------------------------------------------------------------------
\* Routes and transaction contexts.

NoRoute == [name |-> "", key |-> 0, params |-> "undefined"]

Route(k) ==
    [name |-> IF k % 2 = 1 THEN "Home" ELSE "Details",
     key |-> k,
     params |-> IF k = 1 THEN "undefined" ELSE "p"]

Routes == {Route(k) : k \in 1..MaxKey}

\* what the decoration hook does with the context it is given
HookResults == {"nothing", "veto", "keep", "sample"}

\* navigationContainerRef: {current: container}, {current: null}, a container
RefKinds == {"wrapped", "wrappedNull", "direct"}

BLANK_TRANSACTION_CONTEXT_V5 ==
    [name |-> "Route Change",
     op |-> "navigation",
     tags |-> [instrumentation |-> "react-navigation-v5", routeName |-> ""],
     data |-> [route |-> [kind |-> "absent", name |-> "", key |-> 0,
                          params |-> "", hasBeenSeen |-> FALSE],
               previousRoute |-> [kind |-> "absent", name |-> "", key |-> 0,
                                  params |-> ""]],
     sampled |-> "undefined"]

\* params ?? {}
ParamsOrEmpty(p) == IF p = "undefined" THEN "{}" ELSE p

\* Array.prototype.includes
includes(keys, key) == \E i \in 1..Len(keys) : keys[i] = key

---------------------------------------------------------------------------
\* The controller state a handler runs on: the instance fields, the global
\* flag, the host's timers, the transactions handed out, and the history.

Cur ==
    [_navigationContainer |-> _navigationContainer,
     _latestRoute |-> _latestRoute,
     _latestTransaction |-> _latestTransaction,
     _initialStateHandled |-> _initialStateHandled,
     _stateChangeTimeout |-> _stateChangeTimeout,
     _recentRouteKeys |-> _recentRouteKeys,
     _beforeNavigate |-> _beforeNavigate,
     registered |-> registered,
     listeners |-> listeners,
     timers |-> timers,
     transactions |-> transactions,
     hookCalls |-> hookCalls,
     recorded |-> recorded,
     dispatchRun |-> dispatchRun,
     firedInRun |-> firedInRun,
     bootCalls |-> bootCalls,
     last |-> last]

\* history record of an operation that has not (yet) called _onStateChange
NoCall(op) ==
    [op |-> op, ran |-> FALSE, route |-> NoRoute, invoked |-> FALSE,
     result |-> "none", pre |-> << >>]

\* the state an operation named op starts from
Start(op) == [Cur EXCEPT !.last = NoCall(op)]

---------------------------------------------------------------------------
\* Collaborators: the transaction creator, the transaction, the host timers.

\* RoutingInstrumentation.onRouteWillChange: a new transaction with the given
\* context is handed out; its id is its index.
onRouteWillChange(txs, context) ==
    Append(txs, [ctx |-> context, finishCalls |-> 0, updateCalls |-> 0,
                 finalized |-> FALSE, age |-> 0, discardedBy |-> 0])

\* RoutingInstrumentation.registerRoutingInstrumentation stores the listener
\* and the decoration hook.
superRegisterRoutingInstrumentation(s) == [s EXCEPT !._beforeNavigate = TRUE]

\* setTimeout(callback, delay): a new armed timer; its handle is its index.
\* tx is history: the transaction created by the _onDispatch that armed it.
setTimeout(tms, delay, tx) ==
    Append(tms, [state |-> "armed", remaining |-> delay, tx |-> tx])

\* clearTimeout(handle): cancels the timer if it has not fired yet
clearTimeout(tms, handle) ==
    IF handle \in 1..Len(tms) /\ tms[handle].state = "armed"
    THEN [tms EXCEPT ![handle].state = "cleared", ![handle].remaining = 0]
    ELSE tms

ArmedTimers(tms) == {h \in 1..Len(tms) : tms[h].state = "armed"}

---------------------------------------------------------------------------
\* The ledger.

\* variant: the slice starts one entry too late
_pushRecentRouteKey_ShortSlice(keys, key) ==
    LET pushed == Append(keys, key)
    IN  IF Len(pushed) > _maxRecentRouteLen
        THEN SubSeq(pushed, Len(pushed) - _maxRecentRouteLen + 2, Len(pushed))
        ELSE pushed

_pushRecentRouteKey(keys, key) ==
    LET pushed == Append(keys, key)
    IN  IF Len(pushed) > _maxRecentRouteLen
        THEN SubSeq(pushed, Len(pushed) - _maxRecentRouteLen + 1, Len(pushed))
        ELSE pushed

---------------------------------------------------------------------------
\* The handlers.

\* variant: the pending transaction is unsampled and finished before the new
\* one replaces it
_onDispatch_ClosingPrevious(s) ==
    LET closed == IF s._latestTransaction # 0
                  THEN [s.transactions EXCEPT
                           ![s._latestTransaction].ctx.sampled = "false",
                           ![s._latestTransaction].finishCalls = @ + 1]
                  ELSE s.transactions
        txs == onRouteWillChange(closed, BLANK_TRANSACTION_CONTEXT_V5)
        tms == setTimeout(s.timers, routeChangeTimeoutMs, Len(txs))
    IN  [s EXCEPT !.transactions = txs,
                  !._latestTransaction = Len(txs),
                  !.timers = tms,
                  !._stateChangeTimeout = Len(tms),
                  !.dispatchRun = Append(@, Len(txs)),
                  !.firedInRun = IF s.dispatchRun = << >> THEN FALSE ELSE @]

_onDispatch(s) ==
    LET txs == onRouteWillChange(s.transactions, BLANK_TRANSACTION_CONTEXT_V5)
        tms == setTimeout(s.timers, routeChangeTimeoutMs, Len(txs))
    IN  [s EXCEPT !.transactions = txs,
                  !._latestTransaction = Len(txs),
                  !.timers = tms,
                  !._stateChangeTimeout = Len(tms),
                  !.dispatchRun = Append(@, Len(txs)),
                  !.firedInRun = IF s.dispatchRun = << >> THEN FALSE ELSE @]

\* variant: the ledger is consulted after the key has been recorded
updatedContext_SeenAfterPush(s, route) ==
    LET originalContext == s.transactions[s._latestTransaction].ctx
        previousRoute == s._latestRoute
        routeHasBeenSeen ==
            includes(_pushRecentRouteKey(s._recentRouteKeys, route.key),
                     route.key)
    IN  [originalContext EXCEPT
            !.name = route.name,
            !.tags.routeName = route.name,
            !.data.route = [kind |-> "route", name |-> route.name,
                            key |-> route.key,
                            params |-> ParamsOrEmpty(route.params),
                            hasBeenSeen |-> routeHasBeenSeen],
            !.data.previousRoute =
                IF previousRoute # NoRoute
                THEN [kind |-> "route", name |-> previousRoute.name,
                      key |-> previousRoute.key,
                      params |-> ParamsOrEmpty(previousRoute.params)]
                ELSE [kind |-> "null", name |-> "", key |-> 0, params |-> ""]]

\* the context _onStateChange proposes for route, from the pending
\* transaction's context, the ledger and the latest route
updatedContext(s, route) ==
    LET originalContext == s.transactions[s._latestTransaction].ctx
        previousRoute == s._latestRoute
        routeHasBeenSeen == includes(s._recentRouteKeys, route.key)
    IN  [originalContext EXCEPT
            !.name = route.name,
            !.tags.routeName = route.name,
            !.data.route = [kind |-> "route", name |-> route.name,
                            key |-> route.key,
                            params |-> ParamsOrEmpty(route.params),
                            hasBeenSeen |-> routeHasBeenSeen],
            !.data.previousRoute =
                IF previousRoute # NoRoute
                THEN [kind |-> "route", name |-> previousRoute.name,
                      key |-> previousRoute.key,
                      params |-> ParamsOrEmpty(previousRoute.params)]
                ELSE [kind |-> "null", name |-> "", key |-> 0, params |-> ""]]

\* this._beforeNavigate?.(updatedContext): what comes back, for a hook that
\* behaves as `hook`; undefined when no hook is stored
beforeNavigateResult(s, hook, context) ==
    IF ~s._beforeNavigate \/ hook = "nothing"
    THEN [defined |-> FALSE, ctx |-> context]
    ELSE [defined |-> TRUE,
          ctx |-> CASE hook = "veto" -> [context EXCEPT !.sampled = "false"]
                    [] hook = "sample" -> [context EXCEPT !.sampled = "true"]
                    [] OTHER -> context]

\* variant: the proposed context is substituted as it is
finalContextOf_KeepingSampling(proposed, returned) ==
    IF ~returned.defined THEN proposed ELSE returned.ctx

\* the context applied: what the hook returned, or the proposed context with
\* sampling off when it returned nothing
finalContextOf(proposed, returned) ==
    IF ~returned.defined
    THEN [proposed EXCEPT !.sampled = "false"]
    ELSE returned.ctx

\* variant: every state event with a route counts as a route change
routeChanged_Always(previousRoute, route) == TRUE

\* !previousRoute || previousRoute.key !== route.key
routeChanged(previousRoute, route) ==
    previousRoute = NoRoute \/ previousRoute.key # route.key

\* variant: the timer is canceled whatever the applied context says
decorateLatestTransaction_AlwaysClears(s, route, hook) ==
    LET proposed == updatedContext(s, route)
        returned == beforeNavigateResult(s, hook, proposed)
        finalContext == finalContextOf(proposed, returned)
        keepTimer == s._stateChangeTimeout = 0
        id == s._latestTransaction
    IN  [s EXCEPT
            !.hookCalls = IF s._beforeNavigate THEN @ + 1 ELSE @,
            !.last.invoked = s._beforeNavigate,
            !.last.result = IF returned.defined THEN hook ELSE "nothing",
            !.timers = IF keepTimer THEN @
                       ELSE clearTimeout(@, s._stateChangeTimeout),
            !._stateChangeTimeout = IF keepTimer THEN @ ELSE 0,
            !.transactions[id].ctx = finalContext,
            !.transactions[id].updateCalls = @ + 1,
            !.transactions[id].finalized = @ \/ finalContext.sampled # "false"]

\* the body of _onStateChange run when a transaction is pending and the route
\* key differs from the latest route's
decorateLatestTransaction(s, route, hook) ==
    LET proposed == updatedContext(s, route)
        returned == beforeNavigateResult(s, hook, proposed)
        finalContext == finalContextOf(proposed, returned)
        keepTimer == finalContext.sampled = "false"
                       \/ s._stateChangeTimeout = 0
        id == s._latestTransaction
    IN  [s EXCEPT
            !.hookCalls = IF s._beforeNavigate THEN @ + 1 ELSE @,
            !.last.invoked = s._beforeNavigate,
            !.last.result = IF returned.defined THEN hook ELSE "nothing",
            !.timers = IF keepTimer THEN @
                       ELSE clearTimeout(@, s._stateChangeTimeout),
            !._stateChangeTimeout = IF keepTimer THEN @ ELSE 0,
            !.transactions[id].ctx = finalContext,
            !.transactions[id].updateCalls = @ + 1,
            !.transactions[id].finalized = @ \/ finalContext.sampled # "false"]

\* variant: a state event without a current route is handled like any other
_onStateChange_AnyRoute(s, route, hook) ==
    LET previousRoute == s._latestRoute
        entered == [s EXCEPT !.dispatchRun = << >>,
                             !.firedInRun = FALSE,
                             !.last.ran = TRUE,
                             !.last.route = route,
                             !.last.pre = [s EXCEPT !.last = NoCall("")]]
    IN  IF ~s._navigationContainer THEN entered
        ELSE LET after ==
                    IF /\ s._latestTransaction # 0
                       /\ routeChanged(previousRoute, route)
                    THEN decorateLatestTransaction(entered, route, hook)
                    ELSE entered
             IN  [after EXCEPT
                    !._recentRouteKeys = _pushRecentRouteKey(@, route.key),
                    !.recorded = Append(@, route.key),
                    !._latestRoute = route]

_onStateChange(s, route, hook) ==
    LET previousRoute == s._latestRoute
        entered == [s EXCEPT !.dispatchRun = << >>,
                             !.firedInRun = FALSE,
                             !.last.ran = TRUE,
                             !.last.route = route,
                             !.last.pre = [s EXCEPT !.last = NoCall("")]]
    IN  IF ~s._navigationContainer THEN entered
        ELSE IF route = NoRoute THEN entered
        ELSE LET after ==
                    IF /\ s._latestTransaction # 0
                       /\ routeChanged(previousRoute, route)
                    THEN decorateLatestTransaction(entered, route, hook)
                    ELSE entered
             IN  [after EXCEPT
                    !._recentRouteKeys = _pushRecentRouteKey(@, route.key),
                    !.recorded = Append(@, route.key),
                    !._latestRoute = route]

\* variant: with the slot empty, the transaction created last is discarded
_discardLatestTransaction_LatestCreated(s) ==
    LET t == IF s._latestTransaction # 0 THEN s._latestTransaction
             ELSE Len(s.transactions)
    IN  IF t # 0
        THEN [s EXCEPT !.transactions[t].ctx.sampled = "false",
                       !.transactions[t].finishCalls = @ + 1,
                       !._latestTransaction = 0]
        ELSE s

\* variant: the transaction is finished with the sampling decision it has
_discardLatestTransaction_KeepingSampling(s) ==
    IF s._latestTransaction # 0
    THEN [s EXCEPT !.transactions[s._latestTransaction].finishCalls = @ + 1,
                   !._latestTransaction = 0]
    ELSE s

\* variant: the slot keeps the transaction after it was finished
_discardLatestTransaction_KeepingSlot(s) ==
    IF s._latestTransaction # 0
    THEN [s EXCEPT !.transactions[s._latestTransaction].ctx.sampled = "false",
                   !.transactions[s._latestTransaction].finishCalls = @ + 1]
    ELSE s

_discardLatestTransaction(s) ==
    IF s._latestTransaction # 0
    THEN [s EXCEPT !.transactions[s._latestTransaction].ctx.sampled = "false",
                   !.transactions[s._latestTransaction].finishCalls = @ + 1,
                   !._latestTransaction = 0]
    ELSE s

registerRoutingInstrumentation(s, route, hook) ==
    LET stored == superRegisterRoutingInstrumentation(s)
    IN  IF ~stored._initialStateHandled
        THEN LET dispatched == [_onDispatch(stored)
                                   EXCEPT !.bootCalls.dispatch = @ + 1]
             IN  IF dispatched._navigationContainer
                 THEN [_onStateChange(dispatched, route, hook)
                          EXCEPT !._initialStateHandled = TRUE,
                                 !.bootCalls.stateChange = @ + 1]
                 ELSE dispatched
        ELSE stored

\* variant: the flag is not consulted
notYetRegistered_Always(s) == TRUE

\* if (!_global.__sentry_rn_v5_registered)
notYetRegistered(s) == ~s.registered

\* variant: the flag is set before the ref is resolved
registerNavigationContainer_FlagFirst(s, ref, route, hook) ==
    IF notYetRegistered(s)
    THEN LET held == [s EXCEPT !._navigationContainer = (ref # "wrappedNull"),
                               !.registered = TRUE]
         IN  IF held._navigationContainer
             THEN LET listening == [held EXCEPT !.listeners.dispatch = @ + 1,
                                                !.listeners.state = @ + 1]
                  IN  IF ~listening._initialStateHandled
                           /\ listening._latestTransaction # 0
                      THEN [_onStateChange(listening, route, hook)
                               EXCEPT !._initialStateHandled = TRUE,
                                      !.bootCalls.stateChange = @ + 1]
                      ELSE listening
             ELSE held
    ELSE s

registerNavigationContainer(s, ref, route, hook) ==
    IF notYetRegistered(s)
    THEN LET held == [s EXCEPT !._navigationContainer = (ref # "wrappedNull")]
         IN  IF held._navigationContainer
             THEN LET listening == [held EXCEPT !.listeners.dispatch = @ + 1,
                                                !.listeners.state = @ + 1]
                      handled ==
                          IF ~listening._initialStateHandled
                               /\ listening._latestTransaction # 0
                          THEN [_onStateChange(listening, route, hook)
                                   EXCEPT !._initialStateHandled = TRUE,
                                          !.bootCalls.stateChange = @ + 1]
                          ELSE listening
                  IN  [handled EXCEPT !.registered = TRUE]
             ELSE held
    ELSE s

---------------------------------------------------------------------------
\* The state machine.

InitState ==
    [_navigationContainer |-> FALSE,
     _latestRoute |-> NoRoute,
     _latestTransaction |-> 0,
     _initialStateHandled |-> FALSE,
     _stateChangeTimeout |-> 0,
     _recentRouteKeys |-> << >>,
     _beforeNavigate |-> FALSE,
     registered |-> FALSE,
     listeners |-> [dispatch |-> 0, state |-> 0],
     timers |-> << >>,
     transactions |-> << >>,
     hookCalls |-> 0,
     recorded |-> << >>,
     dispatchRun |-> << >>,
     firedInRun |-> FALSE,
     bootCalls |-> [dispatch |-> 0, stateChange |-> 0],
     last |-> NoCall("init")]

IsState(s) ==
    /\ _navigationContainer = s._navigationContainer
    /\ _latestRoute = s._latestRoute
    /\ _latestTransaction = s._latestTransaction
    /\ _initialStateHandled = s._initialStateHandled
    /\ _stateChangeTimeout = s._stateChangeTimeout
    /\ _recentRouteKeys = s._recentRouteKeys
    /\ _beforeNavigate = s._beforeNavigate
    /\ registered = s.registered
    /\ listeners = s.listeners
    /\ timers = s.timers
    /\ transactions = s.transactions
    /\ hookCalls = s.hookCalls
    /\ recorded = s.recorded
    /\ dispatchRun = s.dispatchRun
    /\ firedInRun = s.firedInRun
    /\ bootCalls = s.bootCalls
    /\ last = s.last

\* the next state is s (evaluated once)
Becomes(s) ==
    \E r \in {s} :
        /\ _navigationContainer' = r._navigationContainer
        /\ _latestRoute' = r._latestRoute
        /\ _latestTransaction' = r._latestTransaction
        /\ _initialStateHandled' = r._initialStateHandled
        /\ _stateChangeTimeout' = r._stateChangeTimeout
        /\ _recentRouteKeys' = r._recentRouteKeys
        /\ _beforeNavigate' = r._beforeNavigate
        /\ registered' = r.registered
        /\ listeners' = r.listeners
        /\ timers' = r.timers
        /\ transactions' = r.transactions
        /\ hookCalls' = r.hookCalls
        /\ recorded' = r.recorded
        /\ dispatchRun' = r.dispatchRun
        /\ firedInRun' = r.firedInRun
        /\ bootCalls' = r.bootCalls
        /\ last' = r.last

Init == IsState(InitState)

\* the container emits "__unsafe_action__": the dispatch listener runs
\* (while fewer than maxTx transactions exist)
DispatchWithin(maxTx) ==
    /\ listeners.dispatch > 0
    /\ Len(transactions) < maxTx
    /\ Becomes(_onDispatch(Start("dispatch")))

Dispatch == DispatchWithin(MaxTx)

\* the container emits "state": the state listener runs; route is what
\* getCurrentRoute returns, hook how the decoration hook behaves
\* (while fewer than maxRecorded keys were recorded)
StateChangeWithin(route, hook, maxRecorded) ==
    /\ listeners.state > 0
    /\ Len(recorded) < maxRecorded
    /\ Becomes(_onStateChange(Start("stateChange"), route, hook))

StateChange(route, hook) == StateChangeWithin(route, hook, MaxRecorded)

\* time passes; no armed timer is overdue
Tick ==
    /\ ArmedTimers(timers) # {}
    /\ \A h \in ArmedTimers(timers) : timers[h].remaining > 0
    /\ LET s == Start("tick")
           tms == [h \in 1..Len(timers) |->
                      IF timers[h].state = "armed"
                      THEN [timers[h] EXCEPT !.remaining =
                               IF @ > TickMs THEN @ - TickMs ELSE 0]
                      ELSE timers[h]]
           txs == [t \in 1..Len(transactions) |->
                      IF t = _latestTransaction
                      THEN [transactions[t] EXCEPT !.age =
                               IF @ + TickMs < routeChangeTimeoutMs
                               THEN @ + TickMs ELSE routeChangeTimeoutMs]
                      ELSE transactions[t]]
       IN  Becomes([s EXCEPT !.timers = tms, !.transactions = txs])

\* the host runs the callback of timer h, the oldest armed timer, once due
TimerFires(h) ==
    /\ h \in ArmedTimers(timers)
    /\ timers[h].remaining = 0
    /\ \A g \in ArmedTimers(timers) : g >= h
    /\ LET s == [Start("timer") EXCEPT !.timers[h].state = "fired",
                                       !.firedInRun = (dispatchRun # << >>)]
           t == s._latestTransaction
           discarded == _discardLatestTransaction(s)
       IN  Becomes(IF t # 0
                   THEN [discarded EXCEPT !.transactions[t].discardedBy = h]
                   ELSE discarded)

RegisterRoutingInstrumentationWithin(route, hook, maxTx, maxRecorded) ==
    /\ Len(transactions) < maxTx
    /\ Len(recorded) < maxRecorded
    /\ Becomes(registerRoutingInstrumentation(
                   Start("registerRoutingInstrumentation"), route, hook))

RegisterRoutingInstrumentation(route, hook) ==
    RegisterRoutingInstrumentationWithin(route, hook, MaxTx, MaxRecorded)

RegisterNavigationContainerWithin(ref, route, hook, maxRecorded) ==
    /\ Len(recorded) < maxRecorded
    /\ Becomes(registerNavigationContainer(
                   Start("registerNavigationContainer"), ref, route, hook))

RegisterNavigationContainer(ref, route, hook) ==
    RegisterNavigationContainerWithin(ref, route, hook, MaxRecorded)

\* the inputs an operation reads: the current route only if it calls
\* _onStateChange with a container held, the hook's behaviour only if that
\* call reaches the hook
RoutesRead(s, calls) ==
    IF calls /\ s._navigationContainer THEN Routes \cup {NoRoute} ELSE {NoRoute}

HooksAsked(s, route) ==
    IF /\ route # NoRoute
       /\ s._beforeNavigate
       /\ s._latestTransaction # 0
       /\ routeChanged(s._latestRoute, route)
    THEN HookResults
    ELSE {"nothing"}

\* the state in which registerRoutingInstrumentation calls _onStateChange
AfterInitialDispatch == _onDispatch(superRegisterRoutingInstrumentation(Cur))

Next ==
    \/ Dispatch
    \/ \E route \in RoutesRead(Cur, TRUE) : \E hook \in HooksAsked(Cur, route) :
           StateChange(route, hook)
    \/ Tick
    \/ \E h \in 1..Len(timers) : TimerFires(h)
    \/ \E route \in RoutesRead(Cur, ~_initialStateHandled) :
           \E hook \in HooksAsked(AfterInitialDispatch, route) :
               RegisterRoutingInstrumentation(route, hook)
    \/ \E ref \in RefKinds :
           \E route \in RoutesRead([Cur EXCEPT !._navigationContainer =
                                       ~registered /\ ref # "wrappedNull"],
                                   ~_initialStateHandled /\ _latestTransaction # 0) :
               \E hook \in HooksAsked(Cur, route) :
                   RegisterNavigationContainer(ref, route, hook)

Spec == Init /\ [][Next]_vars

\* every armed timer eventually fires: time passes and due callbacks run
FairSpec ==
    /\ Spec
    /\ WF_vars(Tick)
    /\ WF_vars(\E h \in 1..Len(timers) : TimerFires(h))

---------------------------------------------------------------------------
\* The same controller followed through more state events and fewer
\* dispatches, so that routes are revisited while a transaction is pending.

NextSeen ==
    \/ DispatchWithin(MaxSeenTx)
    \/ \E route \in RoutesRead(Cur, TRUE) : \E hook \in HooksAsked(Cur, route) :
           StateChangeWithin(route, hook, MaxSeenRecorded)
    \/ Tick
    \/ \E h \in 1..Len(timers) : TimerFires(h)
    \/ \E route \in RoutesRead(Cur, ~_initialStateHandled) :
           \E hook \in HooksAsked(AfterInitialDispatch, route) :
               RegisterRoutingInstrumentationWithin(route, hook, MaxSeenTx,
                                                    MaxSeenRecorded)
    \/ \E ref \in RefKinds :
           \E route \in RoutesRead([Cur EXCEPT !._navigationContainer =
                                       ~registered /\ ref # "wrappedNull"],
                                   ~_initialStateHandled /\ _latestTransaction # 0) :
               \E hook \in HooksAsked(Cur, route) :
                   RegisterNavigationContainerWithin(ref, route, hook,
                                                     MaxSeenRecorded)

SpecSeen == Init /\ [][NextSeen]_vars

---------------------------------------------------------------------------
\* The ledger on its own: a registered container reports a new route key on
\* every state event and no transaction is pending.

InitLedger ==
    IsState(registerNavigationContainer(InitState, "direct", NoRoute, "nothing"))

RecordKey ==
    /\ Len(recorded) < MaxLedgerKeys
    /\ Becomes(_onStateChange(Start("stateChange"),
                              Route(Len(recorded) + 1), "nothing"))

NextLedger == RecordKey

SpecLedger == InitLedger /\ [][NextLedger]_vars

---------------------------------------------------------------------------
\* Properties.

Created == 1..Len(transactions)

Finalized(t) == t \in Created /\ transactions[t].finalized

Discarded(t) == t \in Created /\ transactions[t].discardedBy # 0

\* C1: a transaction to which _onStateChange has applied a final context
\* whose sampling is not false is never afterwards set unsampled and
\* finished by a discard timer callback.
C1_FinalizedNeverDiscarded ==
    \A t \in Created : Finalized(t) => ~Discarded(t)

\* C2: at most one discard timer is outstanding (armed, not fired, not
\* canceled) in every reachable state.
C2_AtMostOneTimer == Cardinality(ArmedTimers(timers)) <= 1

\* C3: every transaction created by an on-dispatch is eventually finalized by
\* an on-state-change or discarded, given that armed timers eventually fire.
C3_EveryTransactionSettles ==
    \A t \in 1..MaxTx :
        (t \in Created) ~> (Finalized(t) \/ Discarded(t))

\* C4: a transaction is discarded only by the timer armed in the on-dispatch
\* that created it, hence not before routeChangeTimeoutMs have passed since
\* that dispatch.
C4_DiscardedByOwnTimer ==
    \A t \in Created :
        Discarded(t) =>
            /\ timers[transactions[t].discardedBy].tx = t
            /\ transactions[t].age >= routeChangeTimeoutMs

\* what C5 says of a run of on-dispatch events: the transaction of the last
\* one is the pending one, and the controller has neither finished nor
\* unsampled any transaction created earlier in the run
RunLeavesLastPending ==
    /\ _latestTransaction = dispatchRun[Len(dispatchRun)]
    /\ \A i \in 1..(Len(dispatchRun) - 1) :
           /\ dispatchRun[i] # _latestTransaction
           /\ transactions[dispatchRun[i]].finishCalls = 0
           /\ transactions[dispatchRun[i]].ctx.sampled # "false"

\* C5 as stated: after one or more on-dispatch events with no on-state-change
\* in between, the transaction of the most recent dispatch is the one pending
\* transaction and no earlier one was finished or unsampled by the controller.
C5_AfterDispatchesOnly == dispatchRun # << >> => RunLeavesLastPending

\* C5 as amended: the same, for runs of on-dispatch events during which no
\* on-state-change ran and no discard timer callback fired.
C5_AfterDispatchesNoTimer ==
    (dispatchRun # << >> /\ ~firedInRun) => RunLeavesLastPending

C5_Witness ==
    /\ Len(dispatchRun) >= 2
    /\ ~firedInRun
    /\ last.op = "dispatch"
    /\ ArmedTimers(timers) # {}

\* the last operation called _onStateChange and it reached the decoration
\* step (a transaction was pending and the route key was new)
LastDecorated == last.ran /\ last.result # "none"

\* C6: when _onStateChange invokes the hook and the hook returns a context
\* with sampled false, a discard timer is still armed afterwards and the
\* transaction is still pending; when it returns a context whose sampled is
\* not false, no timer handle is held afterwards and the timer armed by the
\* latest dispatch is canceled.
C6_VetoKeepsTimerElseCanceled ==
    (LastDecorated /\ last.invoked /\ last.result # "nothing") =>
        LET t == last.pre._latestTransaction
        IN  IF transactions[t].ctx.sampled = "false"
            THEN /\ ArmedTimers(timers) # {}
                 /\ _latestTransaction = t
            ELSE /\ _stateChangeTimeout = 0
                 /\ timers[Len(timers)].state = "cleared"

\* C7: when the hook returns no context, the context applied to the pending
\* transaction by updateWithContext is the proposed context with sampled
\* false, the handler completes, and no timer is canceled.
C7_NothingReturnedUnsampled ==
    (LastDecorated /\ last.result = "nothing") =>
        LET pre == last.pre
            t == pre._latestTransaction
        IN  /\ transactions[t].ctx =
                   [updatedContext(pre, last.route) EXCEPT !.sampled = "false"]
            /\ transactions[t].updateCalls = pre.transactions[t].updateCalls + 1
            /\ _latestTransaction = t
            /\ timers = pre.timers
            /\ _stateChangeTimeout = pre._stateChangeTimeout

C7_Witness ==
    /\ LastDecorated
    /\ last.invoked
    /\ last.result = "nothing"
    /\ _stateChangeTimeout \in ArmedTimers(timers)
    /\ transactions[_latestTransaction].ctx.sampled = "false"
    /\ transactions[_latestTransaction].ctx.name = last.route.name

\* the last operation called _onStateChange with a container held, and the
\* current route has the key of the latest route
LastSameKey ==
    /\ last.ran
    /\ last.pre._navigationContainer
    /\ last.route # NoRoute
    /\ last.pre._latestRoute # NoRoute
    /\ last.pre._latestRoute.key = last.route.key

\* C8: an on-state-change whose current route key equals the latest route's
\* key does not invoke the hook, does not call updateWithContext and does not
\* touch the timer; it only appends the key to the ledger and sets the latest
\* route. (The state is compared with the one _onStateChange was entered in;
\* a registration that called it sets its two flags afterwards.)
C8_SameKeyOnlyRecords ==
    LastSameKey =>
        LET pre == last.pre
        IN  /\ ~last.invoked
            /\ hookCalls = pre.hookCalls
            /\ transactions = pre.transactions
            /\ timers = pre.timers
            /\ _stateChangeTimeout = pre._stateChangeTimeout
            /\ _latestTransaction = pre._latestTransaction
            /\ _navigationContainer = pre._navigationContainer
            /\ last.op = "stateChange" =>
                   /\ _initialStateHandled = pre._initialStateHandled
                   /\ registered = pre.registered
            /\ _beforeNavigate = pre._beforeNavigate
            /\ listeners = pre.listeners
            /\ Len(pre._recentRouteKeys) < _maxRecentRouteLen
                  => _recentRouteKeys = Append(pre._recentRouteKeys, last.route.key)
            /\ _latestRoute = last.route

C8_Witness ==
    /\ LastSameKey
    /\ last.op = "stateChange"
    /\ _beforeNavigate
    /\ _latestTransaction # 0
    /\ transactions[_latestTransaction].updateCalls = 0
    /\ ArmedTimers(timers) # {}
    /\ Len(_recentRouteKeys) >= 2

\* C9: updateWithContext is applied to each transaction at most once.
C9_UpdatedAtMostOnce ==
    \A t \in Created : transactions[t].updateCalls <= 1

\* the keys recorded last, at most n of them, oldest first
MostRecent(n) ==
    SubSeq(recorded, IF Len(recorded) > n THEN Len(recorded) - n + 1 ELSE 1,
           Len(recorded))

\* C10: the ledger never holds more than _maxRecentRouteLen keys; once more
\* distinct keys than that were recorded it holds exactly the
\* _maxRecentRouteLen most recent ones in insertion order, and a key is
\* reported as seen iff it is among them.
C10_LedgerBounded ==
    /\ Len(_recentRouteKeys) <= _maxRecentRouteLen
    /\ Len(recorded) > _maxRecentRouteLen =>
           /\ Len(_recentRouteKeys) = _maxRecentRouteLen
           /\ _recentRouteKeys = MostRecent(_maxRecentRouteLen)
    /\ \A k \in 1..MaxLedgerKeys :
           includes(_recentRouteKeys, k) <=>
               \E i \in 1..Len(recorded) :
                   /\ i > Len(recorded) - _maxRecentRouteLen
                   /\ recorded[i] = k

C10_Witness ==
    /\ Len(recorded) > _maxRecentRouteLen + 2
    /\ last.ran
    /\ ~includes(_recentRouteKeys, 1)
    /\ includes(_recentRouteKeys, Len(recorded))

---------------------------------------------------------------------------
\* Registration and bootstrapping.

\* C11: across any sequence of registerNavigationContainer calls, the
\* dispatch listener and the state listener are each attached at most once in
\* total, and the registration flag only ever changes from false to true.
C11_ListenersOnceFlagMonotone ==
    [][/\ listeners'.dispatch <= 1
       /\ listeners'.state <= 1
       /\ (registered => registered')]_vars

\* registerNavigationContainer was called again after a successful call
C11_Witness ==
    /\ last.op = "registerNavigationContainer"
    /\ ~last.ran
    /\ registered
    /\ _latestTransaction # 0
    /\ ~_initialStateHandled
    /\ listeners = [dispatch |-> 1, state |-> 1]

\* C12: over any sequence of registerRoutingInstrumentation and
\* registerNavigationContainer calls on one instance, the bootstrap
\* _onDispatch is invoked at most once and the bootstrap _onStateChange is
\* invoked at most once.
C12_BootstrapAtMostOnce ==
    /\ bootCalls.dispatch <= 1
    /\ bootCalls.stateChange <= 1

\* C13: once registerRoutingInstrumentation and a successful
\* registerNavigationContainer have both been called, in either order and
\* with any timer firings in between, the initial route was handled: the
\* initial-handled flag is true.
C13_BothRegisteredHandled ==
    (bootCalls.dispatch >= 1 /\ registered) => _initialStateHandled

---------------------------------------------------------------------------
\* The discard callback.

\* the timer that fired last: timers fire in the order they were armed
JustFired ==
    CHOOSE h \in 1..Len(timers) :
        /\ timers[h].state = "fired"
        /\ \A g \in 1..Len(timers) : timers[g].state = "fired" => g <= h

\* C14: the discard callback run while no transaction is pending changes no
\* controller state (pending slot, latest route, ledger, timer handle,
\* initial-handled flag) and calls no operation on any transaction; so firing
\* it twice in a row has the same effect as firing it once.
C14_DiscardWithoutPendingNoOp ==
    [][(last'.op = "timer" /\ _latestTransaction = 0) =>
          /\ _latestTransaction' = 0
          /\ _latestRoute' = _latestRoute
          /\ _recentRouteKeys' = _recentRouteKeys
          /\ _stateChangeTimeout' = _stateChangeTimeout
          /\ _initialStateHandled' = _initialStateHandled
          /\ _navigationContainer' = _navigationContainer
          /\ transactions' = transactions]_vars

\* a second timer fired after an earlier one had emptied the slot
C14_Witness ==
    /\ last.op = "timer"
    /\ Cardinality({h \in 1..Len(timers) : timers[h].state = "fired"}) = 2
    /\ Cardinality({t \in Created : Discarded(t)}) = 1
    /\ \A t \in Created : transactions[t].finishCalls <= 1
    /\ _latestTransaction = 0

\* C15: when the timer of a dispatch fires and neither an _onStateChange nor
\* a further dispatch followed that dispatch, the transaction it created has
\* sampled false, finish was invoked on it, and the pending slot is empty.
C15_TimeoutDiscards ==
    (/\ last.op = "timer"
     /\ dispatchRun # << >>
     /\ timers[JustFired].tx = dispatchRun[Len(dispatchRun)]) =>
        LET t == dispatchRun[Len(dispatchRun)]
        IN  /\ transactions[t].ctx.sampled = "false"
            /\ transactions[t].finishCalls >= 1
            /\ _latestTransaction = 0

\* the timer of a dispatch nothing followed fired and discarded its
\* transaction
C15_Witness ==
    /\ last.op = "timer"
    /\ dispatchRun # << >>
    /\ timers[JustFired].tx = dispatchRun[Len(dispatchRun)]
    /\ transactions[dispatchRun[Len(dispatchRun)]].discardedBy = JustFired
    /\ transactions[dispatchRun[Len(dispatchRun)]].age = routeChangeTimeoutMs

\* C16: registerNavigationContainer called, while the flag is false, with a
\* ref that resolves to no container attaches no listener and leaves the flag
\* false; called with a ref that resolves to a container it attaches both
\* listeners and sets the flag, also after calls that resolved to none.
C16_InvalidRefLeavesUnregistered ==
    [][(last'.op = "registerNavigationContainer" /\ ~registered) =>
          IF _navigationContainer'
          THEN /\ registered'
               /\ listeners' = [dispatch |-> listeners.dispatch + 1,
                                state |-> listeners.state + 1]
          ELSE /\ ~registered'
               /\ listeners' = listeners]_vars

\* a call whose ref resolved to no container has returned
C16_Witness ==
    /\ last.op = "registerNavigationContainer"
    /\ ~_navigationContainer
    /\ ~registered
    /\ listeners = [dispatch |-> 0, state |-> 0]
    /\ _latestTransaction # 0

---------------------------------------------------------------------------
\* _onStateChange: early returns and the proposed context.

\* what C17 says an early return leaves alone
Untouched(s) ==
    << s._latestTransaction, s.transactions, s.timers, s._stateChangeTimeout,
       s._latestRoute, s._recentRouteKeys, s.hookCalls >>

\* C17: an _onStateChange that runs while no container is registered, or
\* whose container returns no route, is a no-op: the pending transaction, its
\* context, the timer, the latest route and the ledger are unchanged and the
\* hook is not invoked.  Every call made in a behaviour is preceded by a
\* check for the container, so the handler is also applied, with every input,
\* to each reachable state that has none.
C17_NoContainerOrNoRouteNoOp ==
    /\ (last.ran /\ (~last.pre._navigationContainer \/ last.route = NoRoute)) =>
          /\ Untouched(Cur) = Untouched(last.pre)
          /\ ~last.invoked
          /\ last.result = "none"
    /\ ~_navigationContainer =>
          \A route \in Routes \cup {NoRoute} : \A hook \in HookResults :
              LET after == _onStateChange(Cur, route, hook)
              IN  /\ Untouched(after) = Untouched(Cur)
                  /\ ~after.last.invoked

\* the container returned no route while a transaction was pending, its timer
\* armed and a hook stored
C17_Witness ==
    /\ last.ran
    /\ last.route = NoRoute
    /\ last.pre._navigationContainer
    /\ _latestTransaction # 0
    /\ _stateChangeTimeout # 0
    /\ _beforeNavigate
    /\ _latestRoute # NoRoute

\* the key of the route just read was recorded by an earlier _onStateChange
\* and is among the _maxRecentRouteLen keys recorded last before this one
SeenBefore ==
    \E i \in 1..(Len(recorded) - 1) :
        /\ i >= Len(recorded) - _maxRecentRouteLen
        /\ recorded[i] = last.route.key

\* the route the most recent earlier _onStateChange set as latest, as it
\* appears in data.previousRoute
PreviousRouteData ==
    IF Len(recorded) >= 2
    THEN LET previous == Route(recorded[Len(recorded) - 1])
         IN  [kind |-> "route", name |-> previous.name, key |-> previous.key,
              params |-> ParamsOrEmpty(previous.params)]
    ELSE [kind |-> "null", name |-> "", key |-> 0, params |-> ""]

\* hasBeenSeen and previousRoute of the context the last _onStateChange
\* proposed are as SeenBefore and PreviousRouteData say
DecoratedFromHistory ==
    LastDecorated =>
        LET data == transactions[last.pre._latestTransaction].ctx.data
        IN  /\ data.route.hasBeenSeen = SeenBefore
            /\ data.previousRoute = PreviousRouteData

\* no earlier _onStateChange decorated a transaction
FirstDecorated ==
    /\ LastDecorated
    /\ \A t \in Created :
          transactions[t].updateCalls =
              IF t = last.pre._latestTransaction THEN 1 ELSE 0

\* C18 as stated: for every decorating _onStateChange, hasBeenSeen is true
\* iff the key was in the ledger before the handler ran and previousRoute is
\* the route the most recent earlier state change set as latest, or null; in
\* particular the first decorating state change has hasBeenSeen false and
\* previousRoute null.
C18_FirstDecoratedUnseen ==
    /\ DecoratedFromHistory
    /\ FirstDecorated =>
          LET data == transactions[last.pre._latestTransaction].ctx.data
          IN  /\ ~data.route.hasBeenSeen
              /\ data.previousRoute.kind = "null"

\* C18 amended: as above, but hasBeenSeen is false and previousRoute null
\* in the decorating state change that is the first of the controller to read
\* a route.
C18_FirstRouteUnseen ==
    /\ DecoratedFromHistory
    /\ (LastDecorated /\ Len(recorded) = 1) =>
          LET data == transactions[last.pre._latestTransaction].ctx.data
          IN  /\ ~data.route.hasBeenSeen
              /\ data.previousRoute.kind = "null"

\* a pending transaction was decorated with a route seen before, coming from
\* another route
C18_Witness ==
    /\ LastDecorated
    /\ SeenBefore
    /\ Len(recorded) = 3
    /\ recorded[2] # recorded[3]
    /\ transactions[last.pre._latestTransaction].ctx.data.route.hasBeenSeen

---------------------------------------------------------------------------
\* Transactions the slot no longer holds.

\* C19: the controller invokes finish on a transaction at most once, and
\* makes no call (updateWithContext, sampled, finish) on a transaction that
\* is not the pending one.
C19_OnlyPendingTouched ==
    [][\A t \in Created :
          /\ transactions'[t].finishCalls <= 1
          /\ t # _latestTransaction =>
                [transactions'[t] EXCEPT !.discardedBy = 0] =
                    [transactions[t] EXCEPT !.discardedBy = 0]]_vars

\* a timer discarded the pending transaction while a superseded one was left
\* as it was created
C19_Witness ==
    /\ last.op = "timer"
    /\ \E t, u \in Created :
          /\ u < t
          /\ transactions[t].discardedBy # 0
          /\ transactions[t].finishCalls = 1
          /\ transactions[u].finishCalls = 0
          /\ transactions[u].updateCalls = 0
          /\ transactions[u].ctx = BLANK_TRANSACTION_CONTEXT_V5

\* C20 (state part): if a transaction is pending and no context with sampled
\* other than false was ever applied to it, a discard timer is armed.
C20_UnfinalizedPendingHasTimer ==
    (_latestTransaction # 0 /\ ~transactions[_latestTransaction].finalized) =>
        ArmedTimers(timers) # {}

\* C20: the state part always holds and, when timers fire fairly, such a
\* transaction does not stay pending forever.
C20_UnfinalizedPendingLeaves ==
    /\ []C20_UnfinalizedPendingHasTimer
    /\ \A t \in 1..MaxTx :
          (_latestTransaction = t /\ ~Finalized(t))
              ~> (_latestTransaction # t \/ Finalized(t))

\* a vetoed transaction is pending and the timer of its dispatch still armed
C20_Witness ==
    /\ _latestTransaction # 0
    /\ ~transactions[_latestTransaction].finalized
    /\ transactions[_latestTransaction].updateCalls >= 1
    /\ last.result = "veto"
    /\ _stateChangeTimeout # 0

====
